---- MODULE Spec2Model ----
(***************************************************************************)
(* Model of package run (group.go): Group.Add, Group.Wait and Group.stop.  *)
(*                                                                         *)
(* Goroutines are processes with a program counter.  A Go `select` first   *)
(* polls its cases (choosing any ready one), and otherwise parks; a parked *)
(* select is resolved by the first channel that is closed afterwards.      *)
(* Deadlines are timers that may fire at any moment while their context is *)
(* live.  A Start or Stop function is an opaque callable: when (and        *)
(* whether) it returns, and whether it returns an error, is chosen by the  *)
(* environment.                                                            *)
(***************************************************************************)
EXTENDS Integers, Sequences, FiniteSets, TLC

\* Bounds of the model.
MaxPairs == 2
NumAdders == 2

Adders == 1..NumAdders

VARIABLES
    mu,                 \* g.mu: 0 when free, else the caller of Add holding it
    addPc,              \* position of each caller inside Add
    addArg,             \* the (start, stop) pair each caller passes to Add
    starters,           \* g.starters
    stoppers,           \* g.stoppers
    ctxDone,            \* ctx.Done() of the caller's context is closed
    startCtxDone,       \* startCtx.Done() is closed
    startDeadlineFired, \* the timer of startCtx has expired
    wpc,                \* position of the goroutine running Wait
    startW,             \* Wait: state of each start goroutine
    startWg,            \* Wait: counter of wg
    startErrors,        \* Wait: buffer of channel startErrors
    startErrorsClosed,  \* Wait: startErrors is closed
    startDoneClosed,    \* Wait: channel done is closed
    startSup,           \* Wait: position of the goroutine that waits on wg
    arm,                \* Wait: the case its select took
    errs,               \* Wait: local errs of the done case
    outcome,            \* the error returned by Wait
    spc,                \* position of the Wait goroutine inside stop
    stopCtxDone,        \* stopCtx.Done() is closed
    stopDeadlineFired,  \* the timer of stopCtx has expired
    stopW,              \* stop: state of each stop goroutine
    stopWg,             \* stop: counter of wg
    stopErrors,         \* stop: buffer of channel stopErrors
    stopErrorsClosed,   \* stop: stopErrors is closed
    stopDoneClosed,     \* stop: channel done is closed
    stopSup,            \* stop: position of the goroutine that waits on wg
    stopArm,            \* stop: the case its select took
    stopResult,         \* the error returned by stop
    stopCalls,          \* history: number of calls of stop
    stopInvoked,        \* history: number of invocations of each Stop function
    cancelPhase,        \* history: where Wait was when ctx was cancelled
    deadlinePhase,      \* history: where Wait was when the timer of startCtx expired
    stopDeadlinePhase,  \* history: where stop was when the timer of stopCtx expired
    snapFailed,         \* history: Start functions that had failed when Wait returned
    panicked            \* a goroutine has panicked (send on or close of a closed channel)

regVars == <<mu, addPc, addArg, starters, stoppers>>
ctxVars == <<ctxDone, startCtxDone, startDeadlineFired>>
startVars == <<startW, startWg, startErrors, startErrorsClosed, startDoneClosed, startSup>>
waitVars == <<wpc, arm, errs, outcome>>
stopVars == <<spc, stopCtxDone, stopDeadlineFired, stopW, stopWg, stopErrors,
              stopErrorsClosed, stopDoneClosed, stopSup, stopArm, stopResult>>
histVars == <<stopCalls, stopInvoked, cancelPhase, deadlinePhase, stopDeadlinePhase,
             snapFailed>>
vars == <<regVars, ctxVars, startVars, waitVars, stopVars, histVars, panicked>>

-----------------------------------------------------------------------------
\* Error values.

Nil == [kind |-> "nil", src |-> "", idx |-> 0, errs |-> <<>>]

Leaf(src, idx) == [kind |-> "leaf", src |-> src, idx |-> idx, errs |-> <<>>]

ErrStartContextDeadlineExceeded == Leaf("start context deadline exceeded", 0)

ErrStopContextDeadlineExceeded == Leaf("stop context deadline exceeded", 0)

\* The error returned by the Start function of the pair registered at position i.
StartErr(i) == Leaf("start", i)

\* The error returned by the Stop function of the pair registered at position i.
StopErr(i) == Leaf("stop", i)

\* errors.Join: nil arguments are discarded; nil when nothing is left.
Join(es) ==
    LET nn == SelectSeq(es, LAMBDA e : e # Nil)
    IN  IF Len(nn) = 0 THEN Nil
        ELSE [kind |-> "join", src |-> "", idx |-> 0, errs |-> nn]

RECURSIVE Lines(_)
\* The lines of err.Error(): a joined error prints its parts, one per line.
Lines(e) ==
    IF e.kind = "nil" THEN <<>>
    ELSE IF e.kind = "leaf" THEN <<e>>
    ELSE IF Len(e.errs) = 1 THEN Lines(e.errs[1])
    ELSE Lines(e.errs[1]) \o Lines([e EXCEPT !.errs = Tail(e.errs)])

-----------------------------------------------------------------------------
\* Channels and selects.

\* The cases of Wait's select whose channel is closed.
StartReady ==
    (IF ctxDone THEN {"ctx"} ELSE {})
        \cup (IF startCtxDone THEN {"deadline"} ELSE {})
        \cup (IF startDoneClosed THEN {"done"} ELSE {})

\* The cases of stop's select whose channel is closed.
StopReady ==
    (IF stopCtxDone THEN {"deadline"} ELSE {})
        \cup (IF stopDoneClosed THEN {"done"} ELSE {})

\* Closing the channel of case a resolves Wait's select when it is parked.
WakeWait(a) ==
    IF wpc = "parked"
    THEN wpc' = "selected" /\ arm' = a
    ELSE UNCHANGED <<wpc, arm>>

\* Closing the channel of case a resolves stop's select when it is parked.
WakeStop(a) ==
    IF spc = "parked"
    THEN spc' = "collect" /\ stopArm' = a
    ELSE UNCHANGED <<spc, stopArm>>

\* Wait has launched the start goroutines and its select is not resolved yet.
InStartRace == wpc \in {"select", "parked"}

SomeStarterRunning == \E i \in 1..Len(startW) : startW[i] = "running"

SomeStarterFailed == \E i \in 1..Len(startW) : startW[i] = "fail"

SomeStopperUnfinished == \E i \in 1..Len(stopW) : stopW[i] \in {"spawned", "running"}

\* stop has launched the stop goroutines and every Stop function has returned.
AllStoppersFinished ==
    /\ spc \in {"select", "parked", "collect", "returned"}
    /\ \A i \in 1..Len(stopW) : stopW[i] \in {"ok", "fail"}

-----------------------------------------------------------------------------
\* Init: NewGroup returns a Group with no pair; Wait has not been called.

Init ==
    /\ mu = 0
    /\ addPc = [t \in Adders |-> "idle"]
    /\ addArg = [t \in Adders |-> 0]
    /\ starters = <<>>
    /\ stoppers = <<>>
    /\ ctxDone = FALSE
    /\ startCtxDone = FALSE
    /\ startDeadlineFired = FALSE
    /\ wpc = "idle"
    /\ startW = <<>>
    /\ startWg = 0
    /\ startErrors = <<>>
    /\ startErrorsClosed = FALSE
    /\ startDoneClosed = FALSE
    /\ startSup = "none"
    /\ arm = "none"
    /\ errs = <<>>
    /\ outcome = Nil
    /\ spc = "none"
    /\ stopCtxDone = FALSE
    /\ stopDeadlineFired = FALSE
    /\ stopW = <<>>
    /\ stopWg = 0
    /\ stopErrors = <<>>
    /\ stopErrorsClosed = FALSE
    /\ stopDoneClosed = FALSE
    /\ stopSup = "none"
    /\ stopArm = "none"
    /\ stopResult = Nil
    /\ stopCalls = 0
    /\ stopInvoked = <<>>
    /\ cancelPhase = "none"
    /\ deadlinePhase = "none"
    /\ stopDeadlinePhase = "none"
    /\ snapFailed = {}
    /\ panicked = FALSE

-----------------------------------------------------------------------------
\* Group.Add.  The pair passed by a call is named by the number of the call,
\* counted in the order in which the calls take the lock.

\* Mutant of AddLock: Add appends without taking g.mu.
AddLockNoMutex(t) ==
    /\ wpc = "idle"
    /\ addPc[t] = "idle"
    /\ Len(starters) < MaxPairs
    /\ mu' = t
    /\ addArg' = [addArg EXCEPT ![t] = Len(starters) + 1]
    /\ addPc' = [addPc EXCEPT ![t] = "locked"]
    /\ UNCHANGED <<starters, stoppers, ctxVars, startVars, waitVars, stopVars, histVars>>
    /\ UNCHANGED panicked

\* g.mu.Lock()
AddLock(t) ==
    /\ wpc = "idle"
    /\ addPc[t] = "idle"
    /\ mu = 0
    /\ Len(starters) < MaxPairs
    /\ mu' = t
    /\ addArg' = [addArg EXCEPT ![t] = Len(starters) + 1]
    /\ addPc' = [addPc EXCEPT ![t] = "locked"]
    /\ UNCHANGED <<starters, stoppers, ctxVars, startVars, waitVars, stopVars, histVars>>
    /\ UNCHANGED panicked

\* g.starters = append(g.starters, start)
AddStarter(t) ==
    /\ addPc[t] = "locked"
    /\ starters' = Append(starters, addArg[t])
    /\ addPc' = [addPc EXCEPT ![t] = "appended"]
    /\ UNCHANGED <<mu, addArg, stoppers, ctxVars, startVars, waitVars, stopVars, histVars>>
    /\ UNCHANGED panicked

\* g.stoppers = append(g.stoppers, stop); return g (the deferred g.mu.Unlock())
AddStopper(t) ==
    /\ addPc[t] = "appended"
    /\ stoppers' = Append(stoppers, addArg[t])
    /\ mu' = 0
    /\ addPc' = [addPc EXCEPT ![t] = "idle"]
    /\ addArg' = [addArg EXCEPT ![t] = 0]
    /\ UNCHANGED <<starters, ctxVars, startVars, waitVars, stopVars, histVars>>
    /\ UNCHANGED panicked

-----------------------------------------------------------------------------
\* The caller's context and the timer of startCtx.

\* ctx is cancelled (cancel function, signal or its own deadline): ctx.Done()
\* is closed.
ExtCancel ==
    /\ ~ctxDone
    /\ ctxDone' = TRUE
    /\ WakeWait("ctx")
    /\ cancelPhase' =
          IF InStartRace /\ SomeStarterRunning /\ ~startDeadlineFired THEN "race"
          ELSE IF wpc = "idle" THEN "before"
          ELSE "other"
    /\ UNCHANGED <<regVars, startCtxDone, startDeadlineFired, startVars, errs, outcome,
                   stopVars, stopCalls, stopInvoked, deadlinePhase, stopDeadlinePhase,
                   snapFailed>>
    /\ UNCHANGED panicked

\* context: the cancellation of ctx reaches its child startCtx, after ctx.Done()
\* was closed.
PropagateCancel ==
    /\ ctxDone
    /\ wpc # "idle"
    /\ ~startCtxDone
    /\ startCtxDone' = TRUE
    /\ WakeWait("deadline")
    /\ UNCHANGED <<regVars, ctxDone, startDeadlineFired, startVars, errs, outcome,
                   stopVars, histVars>>
    /\ UNCHANGED panicked

\* The timer of startCtx (g.opts.startTimeout) expires.
StartDeadline ==
    /\ wpc # "idle"
    /\ ~startCtxDone
    /\ startCtxDone' = TRUE
    /\ startDeadlineFired' = TRUE
    /\ WakeWait("deadline")
    /\ deadlinePhase' =
          IF wpc = "parked" /\ SomeStarterRunning /\ ~ctxDone THEN "parked"
          ELSE IF wpc = "select" /\ SomeStarterRunning /\ ~ctxDone THEN "polling"
          ELSE IF wpc = "waitCtx" THEN "started"
          ELSE "other"
    /\ UNCHANGED <<regVars, ctxDone, startVars, errs, outcome, stopVars, stopCalls,
                   stopInvoked, cancelPhase, stopDeadlinePhase, snapFailed>>
    /\ UNCHANGED panicked

-----------------------------------------------------------------------------
\* Group.Wait: the start phase.

\* startCtx, startCancel := context.WithTimeout(ctx, g.opts.startTimeout);
\* startErrors := make(chan error, len(g.starters)).
\* The caller has finished registering (Wait reads g.starters without the lock).
WaitBegin ==
    /\ wpc = "idle"
    /\ \A t \in Adders : addPc[t] = "idle"
    /\ wpc' = "launch"
    /\ startCtxDone' = ctxDone
    /\ startW' = [i \in 1..Len(starters) |-> "none"]
    /\ UNCHANGED <<regVars, ctxDone, startDeadlineFired, startWg, startErrors,
                   startErrorsClosed, startDoneClosed, startSup, arm, errs, outcome,
                   stopVars, histVars>>
    /\ UNCHANGED panicked

\* The loop over g.starters, wg.Add(1); go func(a Start) {...}(start) for each,
\* then done := make(chan struct{}); go func() { wg.Wait(); ... }().
\* Each start goroutine does nothing but call a(): it counts as running a()
\* from the moment it exists.
LaunchStarters ==
    /\ wpc = "launch"
    /\ startWg' = Len(starters)
    /\ startW' = [i \in 1..Len(starters) |-> "running"]
    /\ startSup' = "waiting"
    /\ wpc' = "select"
    /\ UNCHANGED <<regVars, ctxVars, startErrors, startErrorsClosed, startDoneClosed,
                   arm, errs, outcome, stopVars, histVars>>
    /\ UNCHANGED panicked

\* Mutant of StartCap: the channel has one slot fewer than there are starters.
StartCapOneShort == Len(starters) - 1

\* startErrors := make(chan error, len(g.starters)): the capacity of the channel.
StartCap == Len(starters)

\* a() returns: if err != nil { startErrors <- err }; the deferred wg.Done().
\* A send on a closed channel panics. A send to a full channel blocks until a
\* receive; Wait receives from startErrors only after done is closed, that is
\* after every start goroutine has called wg.Done(), so a blocked sender stays
\* blocked.
StarterReturn(i, res) ==
    /\ i \in 1..Len(startW)
    /\ startW[i] = "running"
    /\ IF res = "fail" /\ startErrorsClosed
       THEN /\ panicked' = TRUE
            /\ startW' = [startW EXCEPT ![i] = "panic"]
            /\ UNCHANGED <<startErrors, startWg>>
       ELSE IF res = "fail" /\ Len(startErrors) >= StartCap
       THEN /\ startW' = [startW EXCEPT ![i] = "blocked"]
            /\ UNCHANGED <<startErrors, startWg, panicked>>
       ELSE /\ startW' = [startW EXCEPT ![i] = res]
            /\ startErrors' = IF res = "fail"
                              THEN Append(startErrors, StartErr(starters[i]))
                              ELSE startErrors
            /\ startWg' = startWg - 1
            /\ UNCHANGED panicked
    /\ UNCHANGED <<regVars, ctxVars, startErrorsClosed, startDoneClosed, startSup,
                   waitVars, stopVars, histVars>>

\* Mutant of StartSupCloseErrors: the supervisor closes startErrors without
\* waiting for the start goroutines.
StartSupCloseErrorsNoWait ==
    /\ startSup = "waiting"
    /\ panicked' = (panicked \/ startErrorsClosed)
    /\ startErrorsClosed' = TRUE
    /\ startSup' = "closing"
    /\ UNCHANGED <<regVars, ctxVars, startW, startWg, startErrors, startDoneClosed,
                   waitVars, stopVars, histVars>>

\* wg.Wait() returns; close(startErrors). Closing a closed channel panics.
StartSupCloseErrors ==
    /\ startSup = "waiting"
    /\ startWg = 0
    /\ panicked' = (panicked \/ startErrorsClosed)
    /\ startErrorsClosed' = TRUE
    /\ startSup' = "closing"
    /\ UNCHANGED <<regVars, ctxVars, startW, startWg, startErrors, startDoneClosed,
                   waitVars, stopVars, histVars>>

\* close(done). Closing a closed channel panics.
StartSupCloseDone ==
    /\ startSup = "closing"
    /\ panicked' = (panicked \/ startDoneClosed)
    /\ startDoneClosed' = TRUE
    /\ startSup' = "finished"
    /\ WakeWait("done")
    /\ UNCHANGED <<regVars, ctxVars, startW, startWg, startErrors, startErrorsClosed,
                   errs, outcome, stopVars, histVars>>

\* select: some case is ready and one of the ready cases is taken.
WaitSelectPoll ==
    /\ wpc = "select"
    /\ StartReady # {}
    /\ \E a \in StartReady : arm' = a
    /\ wpc' = "selected"
    /\ UNCHANGED <<regVars, ctxVars, startVars, errs, outcome, stopVars, histVars>>
    /\ UNCHANGED panicked

\* select: no case is ready and the goroutine parks on the three channels.
WaitSelectPark ==
    /\ wpc = "select"
    /\ StartReady = {}
    /\ wpc' = "parked"
    /\ UNCHANGED <<regVars, ctxVars, startVars, arm, errs, outcome, stopVars, histVars>>
    /\ UNCHANGED panicked

-----------------------------------------------------------------------------
\* Group.stop.

\* Mutant of StopBegin: stopCtx is derived from the caller's ctx.
StopBeginFromCtx ==
    /\ spc' = "launch"
    /\ stopCtxDone' = ctxDone
    /\ stopW' = [i \in 1..Len(stoppers) |-> "none"]
    /\ stopInvoked' = [i \in 1..Len(stoppers) |-> 0]
    /\ stopCalls' = stopCalls + 1
    /\ UNCHANGED <<stopDeadlineFired, stopWg, stopErrors, stopErrorsClosed, stopDoneClosed,
                   stopSup, stopArm, stopResult>>
    /\ UNCHANGED panicked

\* stopCtx, stopCancel := context.WithTimeout(context.Background(), g.opts.stopTimeout);
\* stopErrors := make(chan error, len(g.stoppers))
StopBegin ==
    /\ spc' = "launch"
    /\ stopCtxDone' = FALSE
    /\ stopW' = [i \in 1..Len(stoppers) |-> "none"]
    /\ stopInvoked' = [i \in 1..Len(stoppers) |-> 0]
    /\ stopCalls' = stopCalls + 1
    /\ UNCHANGED <<stopDeadlineFired, stopWg, stopErrors, stopErrorsClosed, stopDoneClosed,
                   stopSup, stopArm, stopResult>>
    /\ UNCHANGED panicked

\* Mutant of StopLaunchOrder: the loop stops at i > 0 and skips the first pair.
StopLaunchOrderSkipFirst == [k \in 1..(Len(stoppers) - 1) |-> Len(stoppers) + 1 - k]

\* The goroutines in the order the loop over g.stoppers creates them:
\* for i := len(g.stoppers) - 1; i >= 0; i-- (positions counted from 1 here).
StopLaunchOrder == [k \in 1..Len(stoppers) |-> Len(stoppers) + 1 - k]

\* The loop over g.stoppers, wg.Add(1); go func(a Stop) {...}(stopper) for each,
\* then done := make(chan struct{}); go func() { wg.Wait(); ... }()
LaunchStoppers ==
    /\ spc = "launch"
    /\ stopWg' = Len(StopLaunchOrder)
    /\ stopW' = [i \in 1..Len(stoppers) |->
                    IF \E k \in 1..Len(StopLaunchOrder) : StopLaunchOrder[k] = i
                    THEN "spawned" ELSE "none"]
    /\ stopSup' = "waiting"
    /\ spc' = "select"
    /\ UNCHANGED <<regVars, ctxVars, startVars, waitVars, stopCtxDone,
                   stopDeadlineFired, stopErrors, stopErrorsClosed, stopDoneClosed,
                   stopArm, stopResult, histVars>>
    /\ UNCHANGED panicked

\* A stop goroutine is scheduled and calls a(stopCtx).
StopperInvoke(i) ==
    /\ i \in 1..Len(stopW)
    /\ stopW[i] = "spawned"
    /\ stopW' = [stopW EXCEPT ![i] = "running"]
    /\ stopInvoked' = [stopInvoked EXCEPT ![i] = @ + 1]
    /\ UNCHANGED <<regVars, ctxVars, startVars, waitVars, spc, stopCtxDone,
                   stopDeadlineFired, stopWg, stopErrors, stopErrorsClosed,
                   stopDoneClosed, stopSup, stopArm, stopResult, stopCalls, cancelPhase,
                   deadlinePhase, stopDeadlinePhase, snapFailed>>
    /\ UNCHANGED panicked

\* stopErrors := make(chan error, len(g.stoppers)): the capacity of the channel.
StopCap == Len(stoppers)

\* a(stopCtx) returns: if err != nil { stopErrors <- err }; the deferred wg.Done().
\* A send on a closed channel panics. A send to a full channel blocks until a
\* receive: stop receives from stopErrors once it is past its select, and the
\* range loop then takes every value as it is sent.
StopperReturn(i, res) ==
    /\ i \in 1..Len(stopW)
    /\ \/ stopW[i] = "running"
       \/ stopW[i] = "blocked" /\ res = "fail" /\ spc = "collect"
    /\ IF res = "fail" /\ stopErrorsClosed
       THEN /\ panicked' = TRUE
            /\ stopW' = [stopW EXCEPT ![i] = "panic"]
            /\ UNCHANGED <<stopErrors, stopWg>>
       ELSE IF res = "fail" /\ spc # "collect" /\ Len(stopErrors) >= StopCap
       THEN /\ stopW' = [stopW EXCEPT ![i] = "blocked"]
            /\ UNCHANGED <<stopErrors, stopWg, panicked>>
       ELSE /\ stopW' = [stopW EXCEPT ![i] = res]
            /\ stopErrors' = IF res = "fail"
                             THEN Append(stopErrors, StopErr(stoppers[i]))
                             ELSE stopErrors
            /\ stopWg' = stopWg - 1
            /\ UNCHANGED panicked
    /\ UNCHANGED <<regVars, ctxVars, startVars, waitVars, spc, stopCtxDone,
                   stopDeadlineFired, stopErrorsClosed, stopDoneClosed, stopSup, stopArm,
                   stopResult, histVars>>

\* wg.Wait() returns; close(done). Closing a closed channel panics.
StopSupCloseDone ==
    /\ stopSup = "waiting"
    /\ stopWg = 0
    /\ panicked' = (panicked \/ stopDoneClosed)
    /\ stopDoneClosed' = TRUE
    /\ stopSup' = "closing"
    /\ WakeStop("done")
    /\ UNCHANGED <<regVars, ctxVars, startVars, waitVars, stopCtxDone,
                   stopDeadlineFired, stopW, stopWg, stopErrors, stopErrorsClosed,
                   stopResult, histVars>>

\* close(stopErrors). Closing a closed channel panics.
StopSupCloseErrors ==
    /\ stopSup = "closing"
    /\ panicked' = (panicked \/ stopErrorsClosed)
    /\ stopErrorsClosed' = TRUE
    /\ stopSup' = "finished"
    /\ UNCHANGED <<regVars, ctxVars, startVars, waitVars, spc, stopCtxDone,
                   stopDeadlineFired, stopW, stopWg, stopErrors, stopDoneClosed, stopArm,
                   stopResult, histVars>>

\* The timer of stopCtx (g.opts.stopTimeout) expires.
StopDeadline ==
    /\ spc \in {"launch", "select", "parked", "collect"}
    /\ ~stopCtxDone
    /\ stopCtxDone' = TRUE
    /\ stopDeadlineFired' = TRUE
    /\ WakeStop("deadline")
    /\ stopDeadlinePhase' =
          IF SomeStarterFailed /\ SomeStopperUnfinished THEN "running"
          ELSE IF AllStoppersFinished /\ stopDoneClosed THEN "finished"
          ELSE "pending"
    /\ UNCHANGED <<regVars, ctxVars, startVars, waitVars, stopW, stopWg, stopErrors,
                   stopErrorsClosed, stopDoneClosed, stopSup, stopResult, stopCalls,
                   stopInvoked, cancelPhase, deadlinePhase, snapFailed>>
    /\ UNCHANGED panicked

\* select: some case is ready and one of the ready cases is taken.
StopSelectPoll ==
    /\ spc = "select"
    /\ StopReady # {}
    /\ \E a \in StopReady : stopArm' = a
    /\ spc' = "collect"
    /\ UNCHANGED <<regVars, ctxVars, startVars, waitVars, stopCtxDone,
                   stopDeadlineFired, stopW, stopWg, stopErrors, stopErrorsClosed,
                   stopDoneClosed, stopSup, stopResult, histVars>>
    /\ UNCHANGED panicked

\* select: no case is ready and the goroutine parks on the two channels.
StopSelectPark ==
    /\ spc = "select"
    /\ StopReady = {}
    /\ spc' = "parked"
    /\ UNCHANGED <<regVars, ctxVars, startVars, waitVars, stopCtxDone,
                   stopDeadlineFired, stopW, stopWg, stopErrors, stopErrorsClosed,
                   stopDoneClosed, stopSup, stopArm, stopResult, histVars>>
    /\ UNCHANGED panicked

\* Mutant of StopErrs: the marker is appended after the loop over stopErrors.
StopErrsMarkerLast(a, buf) ==
    buf \o (IF a = "deadline" THEN <<ErrStopContextDeadlineExceeded>> ELSE <<>>)

\* stop's errs once the loop over stopErrors has ended: the case taken by the
\* select, then everything the channel delivered, in the order it was sent.
StopErrs(a, buf) ==
    (IF a = "deadline" THEN <<ErrStopContextDeadlineExceeded>> ELSE <<>>) \o buf

\* Mutant of StopReturnValue: the first element of errs is left out of the join.
StopReturnValueDropFirst(es) ==
    IF Len(es) = 0 THEN Nil ELSE Join(Tail(es))

\* if len(errs) == 0 { return nil }; return errors.Join(errs...)
StopReturnValue(es) ==
    IF Len(es) = 0 THEN Nil ELSE Join(es)

\* `for err := range stopErrors` ends when the channel is closed and drained.
StopRangeEnds == stopErrorsClosed

-----------------------------------------------------------------------------
\* Group.Wait: the cases of the select, and the return.

\* Mutant of CtxArm: stop is called only once every start goroutine has finished.
CtxArmAfterStarters ==
    /\ wpc = "selected"
    /\ arm = "ctx"
    /\ startDoneClosed
    /\ wpc' = "stop"
    /\ StopBegin
    /\ UNCHANGED <<regVars, ctxVars, startVars, arm, errs, outcome, cancelPhase,
                   deadlinePhase, stopDeadlinePhase, snapFailed>>
    /\ UNCHANGED panicked

\* case <-ctx.Done(): return g.stop()
CtxArm ==
    /\ wpc = "selected"
    /\ arm = "ctx"
    /\ wpc' = "stop"
    /\ StopBegin
    /\ UNCHANGED <<regVars, ctxVars, startVars, arm, errs, outcome, cancelPhase,
                   deadlinePhase, stopDeadlinePhase, snapFailed>>
    /\ UNCHANGED panicked

\* case <-startCtx.Done(): err := g.stop()
DeadlineArm ==
    /\ wpc = "selected"
    /\ arm = "deadline"
    /\ wpc' = "stop"
    /\ StopBegin
    /\ UNCHANGED <<regVars, ctxVars, startVars, arm, errs, outcome, cancelPhase,
                   deadlinePhase, stopDeadlinePhase, snapFailed>>
    /\ UNCHANGED panicked

\* case <-done: the loop over startErrors (closed before done);
\* if len(errs) > 0 { stopErr := g.stop() ... }
DoneArmFailed ==
    /\ wpc = "selected"
    /\ arm = "done"
    /\ Len(startErrors) > 0
    /\ errs' = startErrors
    /\ wpc' = "stop"
    /\ StopBegin
    /\ UNCHANGED <<regVars, ctxVars, startVars, arm, outcome, cancelPhase,
                   deadlinePhase, stopDeadlinePhase, snapFailed>>
    /\ UNCHANGED panicked

\* case <-done: the loop over startErrors finds none; Wait goes on to <-ctx.Done()
DoneArmStarted ==
    /\ wpc = "selected"
    /\ arm = "done"
    /\ Len(startErrors) = 0
    /\ errs' = startErrors
    /\ wpc' = "waitCtx"
    /\ UNCHANGED <<regVars, ctxVars, startVars, arm, outcome, stopVars, histVars>>
    /\ UNCHANGED panicked

\* Mutant of WaitCtxDone: the successful start waits on startCtx.Done().
WaitCtxDoneOnStartCtx ==
    /\ wpc = "waitCtx"
    /\ startCtxDone
    /\ wpc' = "stop"
    /\ StopBegin
    /\ UNCHANGED <<regVars, ctxVars, startVars, arm, errs, outcome, cancelPhase,
                   deadlinePhase, stopDeadlinePhase, snapFailed>>
    /\ UNCHANGED panicked

\* <-ctx.Done() returns; return g.stop()
WaitCtxDone ==
    /\ wpc = "waitCtx"
    /\ ctxDone
    /\ wpc' = "stop"
    /\ StopBegin
    /\ UNCHANGED <<regVars, ctxVars, startVars, arm, errs, outcome, cancelPhase,
                   deadlinePhase, stopDeadlinePhase, snapFailed>>
    /\ UNCHANGED panicked

\* Mutant of DeadlineResult: the arguments of errors.Join are swapped.
DeadlineResultSwapped(stopErr) ==
    IF stopErr # Nil
    THEN Join(<<stopErr, ErrStartContextDeadlineExceeded>>)
    ELSE ErrStartContextDeadlineExceeded

\* case <-startCtx.Done(): errors.Join(ErrStartContextDeadlineExceeded, err), or
\* ErrStartContextDeadlineExceeded when stop returned nil
DeadlineResult(stopErr) ==
    IF stopErr # Nil
    THEN Join(<<ErrStartContextDeadlineExceeded, stopErr>>)
    ELSE ErrStartContextDeadlineExceeded

\* Mutant of DoneResult: stopErr is put before the start errors.
DoneResultStopFirst(es, stopErr) ==
    IF Len(es) > 0
    THEN Join((IF stopErr # Nil THEN <<stopErr>> ELSE <<>>) \o es)
    ELSE stopErr

\* case <-done: errs = append(errs, stopErr) when stopErr != nil;
\* errors.Join(errs...); or, after a successful start, the result of g.stop()
DoneResult(es, stopErr) ==
    IF Len(es) > 0
    THEN Join(es \o (IF stopErr # Nil THEN <<stopErr>> ELSE <<>>))
    ELSE stopErr

\* The value Wait returns once stop has returned stopErr.
WaitResult(a, es, stopErr) ==
    CASE a = "ctx" -> stopErr
      [] a = "deadline" -> DeadlineResult(stopErr)
      [] a = "done" -> DoneResult(es, stopErr)

\* stop: the loop over stopErrors ends, stop returns (the deferred stopCancel()),
\* and Wait returns (the deferred startCancel()).
StopReturn ==
    /\ spc = "collect"
    /\ StopRangeEnds
    /\ LET r == StopReturnValue(StopErrs(stopArm, stopErrors))
       IN  /\ stopResult' = r
           /\ outcome' = WaitResult(arm, errs, r)
    /\ spc' = "returned"
    /\ wpc' = "returned"
    /\ stopCtxDone' = TRUE
    /\ startCtxDone' = TRUE
    /\ snapFailed' = {i \in 1..Len(startW) : startW[i] = "fail"}
    /\ UNCHANGED <<regVars, ctxDone, startDeadlineFired, startVars, arm, errs,
                   stopDeadlineFired, stopW, stopWg, stopErrors, stopErrorsClosed,
                   stopDoneClosed, stopSup, stopArm, stopCalls, stopInvoked, cancelPhase,
                   deadlinePhase, stopDeadlinePhase>>
    /\ UNCHANGED panicked

-----------------------------------------------------------------------------

Results == {"ok", "fail"}

Next ==
    \/ \E t \in Adders : AddLock(t)
    \/ \E t \in Adders : AddStarter(t)
    \/ \E t \in Adders : AddStopper(t)
    \/ ExtCancel
    \/ PropagateCancel
    \/ StartDeadline
    \/ WaitBegin
    \/ LaunchStarters
    \/ \E i \in 1..MaxPairs, res \in Results : StarterReturn(i, res)
    \/ StartSupCloseErrors
    \/ StartSupCloseDone
    \/ WaitSelectPoll
    \/ WaitSelectPark
    \/ CtxArm
    \/ DeadlineArm
    \/ DoneArmFailed
    \/ DoneArmStarted
    \/ WaitCtxDone
    \/ LaunchStoppers
    \/ \E i \in 1..MaxPairs : StopperInvoke(i)
    \/ \E i \in 1..MaxPairs, res \in Results : StopperReturn(i, res)
    \/ StopSupCloseDone
    \/ StopSupCloseErrors
    \/ StopDeadline
    \/ StopSelectPoll
    \/ StopSelectPark
    \/ StopReturn

Spec == Init /\ [][Next]_vars

\* The Go scheduler runs every runnable goroutine: the goroutine in Wait and
\* stop, the two supervisors and the stop goroutines take their next step when
\* it stays possible, and a cancelled ctx closes the Done channel of its child.
\* Every Stop function returns. Nothing is assumed of the callers of Add, of the
\* Start functions, of the cancellation of ctx or of the two timers.
Fairness ==
    /\ WF_vars(LaunchStarters)
    /\ WF_vars(PropagateCancel)
    /\ WF_vars(StartSupCloseErrors)
    /\ WF_vars(StartSupCloseDone)
    /\ WF_vars(WaitSelectPoll)
    /\ WF_vars(WaitSelectPark)
    /\ WF_vars(CtxArm)
    /\ WF_vars(DeadlineArm)
    /\ WF_vars(DoneArmFailed)
    /\ WF_vars(DoneArmStarted)
    /\ WF_vars(WaitCtxDone)
    /\ WF_vars(LaunchStoppers)
    /\ \A i \in 1..MaxPairs : WF_vars(StopperInvoke(i))
    /\ \A i \in 1..MaxPairs : WF_vars(\E res \in Results : StopperReturn(i, res))
    /\ WF_vars(StopSupCloseDone)
    /\ WF_vars(StopSupCloseErrors)
    /\ WF_vars(StopSelectPoll)
    /\ WF_vars(StopSelectPark)
    /\ WF_vars(StopReturn)

FairSpec == Init /\ [][Next]_vars /\ Fairness

-----------------------------------------------------------------------------
\* Properties.

Returned == wpc = "returned"

\* The lines of the text of the error Wait returned.
OutLines == Lines(outcome)

Count(seq, x) == Cardinality({k \in DOMAIN seq : seq[k] = x})

Positions(seq, x) == {k \in DOMAIN seq : seq[k] = x}

StoppersFailed == {i \in 1..Len(stopW) : stopW[i] = "fail"}

\* C1: when no Start and no Stop function fails and ctx is cancelled while
\* neither the start deadline nor the stop deadline has elapsed, Wait returns nil.
C1_CleanCancelReturnsNil ==
    (/\ Returned
     /\ ctxDone
     /\ ~startDeadlineFired
     /\ ~stopDeadlineFired
     /\ ~SomeStarterFailed
     /\ StoppersFailed = {})
        => outcome = Nil

\* C2: when a Start function has returned an error during Wait, stop is called
\* exactly once and the error Wait returns lists that error, before every error of
\* a Stop function.
C2_StartFailureListedFirst ==
    Returned =>
        \A i \in snapFailed :
            /\ stopCalls = 1
            /\ Positions(OutLines, StartErr(starters[i])) # {}
            /\ \A k \in Positions(OutLines, StartErr(starters[i])) :
                   \A j \in DOMAIN OutLines : OutLines[j].src = "stop" => k < j

\* The error Wait returns is the start-timeout marker followed by what stop
\* returned, and the marker alone when stop returned nil.
MarkerThenStopResult ==
    /\ stopCalls = 1
    /\ OutLines = <<ErrStartContextDeadlineExceeded>> \o Lines(stopResult)
    /\ stopResult = Nil => outcome = ErrStartContextDeadlineExceeded

C5_CancelInRaceNoStartMarker ==
    (Returned /\ cancelPhase = "race" /\ ~startDeadlineFired) =>
        /\ outcome = stopResult
        /\ Count(OutLines, ErrStartContextDeadlineExceeded) = 0

\* Wait's select took the done case and startErrors delivered no error.
SuccessfulStart == arm = "done" /\ Len(startErrors) = 0

\* C6: after a successful start, no Stop function is called and Wait does not
\* return before ctx is cancelled, also when the start deadline expires meanwhile;
\* Wait then returns what stop returned, without the start-timeout marker.
C6_StartedWaitsForCancel ==
    SuccessfulStart =>
        /\ ~ctxDone =>
              /\ ~Returned
              /\ stopCalls = 0
              /\ \A i \in 1..Len(stopW) : stopW[i] = "none"
        /\ Returned =>
              /\ outcome = stopResult
              /\ Count(OutLines, ErrStartContextDeadlineExceeded) = 0

C6_Witness ==
    /\ SuccessfulStart
    /\ Returned
    /\ deadlinePhase = "started"
    /\ Len(starters) = MaxPairs
    /\ stopResult # Nil

\* C7: when Wait has returned, stop was called exactly once and every registered
\* Stop function was called exactly once.
C7_StopOnceEveryStopperOnce ==
    Returned =>
        /\ stopCalls = 1
        /\ Len(stopInvoked) = Len(stoppers)
        /\ \A i \in 1..Len(stoppers) : stopInvoked[i] = 1

C7_Witness ==
    /\ Returned
    /\ Len(stoppers) = MaxPairs
    /\ arm = "deadline"
    /\ stopArm = "deadline"
    /\ SomeStarterRunning

\* C8: when Wait returns nil, no Start function had returned an error, ctx was
\* cancelled, every Stop function returned nil and stop did not time out.
C8_NilMeansCleanCompletion ==
    (Returned /\ outcome = Nil) =>
        /\ snapFailed = {}
        /\ ctxDone
        /\ \A i \in 1..Len(stopW) : stopW[i] = "ok"
        /\ stopArm # "deadline"

\* C9: every error a Start or Stop function returned before Wait returned is
\* exactly once in the error Wait returns.
C9_EveryFailureExactlyOnce ==
    Returned =>
        /\ \A i \in snapFailed : Count(OutLines, StartErr(starters[i])) = 1
        /\ \A i \in StoppersFailed : Count(OutLines, StopErr(stoppers[i])) = 1

\* C10: Wait does not stay blocked in its select, waiting for the Start functions
\* still running, once a Start function has returned an error: the first failure
\* resolves the start race.
C10_FirstFailureEndsStartRace ==
    ~(wpc = "parked" /\ SomeStarterFailed /\ SomeStarterRunning)

StopperInvokedAlready(i) == stopW[i] \in {"running", "ok", "fail"}

\* C11: the Stop functions are called in the reverse order of Add: the Stop
\* function of a pair is not called before that of every pair added after it.
C11_StopCalledInReverseOrder ==
    \A i \in 1..Len(stopW) : \A j \in 1..Len(stopW) :
        (i < j /\ StopperInvokedAlready(i)) => StopperInvokedAlready(j)

\* stop is running: from the creation of stopCtx to the return of stop.
StopActive == spc \in {"launch", "select", "parked", "collect"}

\* stopCtx is cancelled by nothing but its own timer while stop runs, whatever
\* the state of the caller's ctx.
StopCtxIndependent ==
    (StopActive /\ stopCtxDone) => stopDeadlineFired

\* C12 as stated: stopCtx does not depend on the caller's ctx, and the
\* stop-timeout marker is recorded only if the stop deadline elapsed before all
\* the Stop functions had returned.
C12_MarkerOnlyIfDeadlineBeforeFinish ==
    /\ StopCtxIndependent
    /\ stopArm = "deadline" => stopDeadlinePhase \in {"running", "pending"}

\* C12 amended: stopCtx does not depend on the caller's ctx, and the
\* stop-timeout marker is recorded only if the stop deadline elapsed before stop's
\* select was resolved, and then exactly when the select took that case.
C12_MarkerOnlyIfStopDeadlineFired ==
    /\ StopCtxIndependent
    /\ stopArm = "deadline" => stopDeadlineFired
    /\ spc = "returned" =>
          ((Count(Lines(stopResult), ErrStopContextDeadlineExceeded) > 0)
              <=> (stopArm = "deadline"))

C12_Witness ==
    /\ ctxDone
    /\ cancelPhase = "before"
    /\ spc = "parked"
    /\ ~stopCtxDone
    /\ \E i \in 1..Len(stopW) : stopW[i] = "running"

\* C13: with no pair registered and ctx cancelled before Wait is called, Wait
\* returns nil (no deadline having elapsed).
C13_EmptyGroupCancelledReturnsNil ==
    (/\ Returned
     /\ Len(starters) = 0
     /\ cancelPhase = "before"
     /\ ~startDeadlineFired
     /\ ~stopDeadlineFired)
        => outcome = Nil

\* C14: once the stop deadline has won stop's select, stop does not wait for the
\* Stop functions still running: the loop over stopErrors ends and stop returns.
C14_StopDoesNotWaitAfterDeadline ==
    (spc = "collect" /\ stopArm = "deadline" /\ SomeStopperUnfinished)
        => ENABLED StopReturn

\* C15: whenever no call of Add holds g.mu, g.starters and g.stoppers have the
\* same length and hold, at each position, the two functions of the same call.
C15_PairsRegisteredAtomically ==
    mu = 0 =>
        /\ Len(starters) = Len(stoppers)
        /\ \A k \in 1..Len(starters) : starters[k] = stoppers[k]

C15_Witness ==
    /\ mu = 0
    /\ Len(starters) = MaxPairs
    /\ Len(stoppers) = MaxPairs
    /\ wpc = "idle"

StartersFailed == {i \in 1..Len(startW) : startW[i] = "fail"}

\* C16: when Wait's select took the done case and a Start function had failed,
\* Wait calls stop without waiting for ctx and returns the errors of all the failed
\* Start functions, each once, in the order they were sent to startErrors,
\* followed by what stop returned.
C16_DoneArmFailureComposite ==
    /\ (wpc = "selected" /\ arm = "done" /\ Len(startErrors) > 0) => ENABLED DoneArmFailed
    /\ (Returned /\ arm = "done" /\ Len(errs) > 0) =>
          /\ stopCalls = 1
          /\ errs = startErrors
          /\ OutLines = startErrors \o Lines(stopResult)
          /\ {startErrors[k] : k \in DOMAIN startErrors}
                 = {StartErr(starters[i]) : i \in StartersFailed}
          /\ \A i \in StartersFailed : Count(startErrors, StartErr(starters[i])) = 1

C16_Witness ==
    /\ Returned
    /\ arm = "done"
    /\ ~ctxDone
    /\ startErrors = <<StartErr(2), StartErr(1)>>
    /\ stopResult # Nil

\* C17: when stop has returned, its result is nil exactly when the stop deadline
\* did not win the select and no Stop function returned an error; otherwise its
\* lines are the stop-timeout marker, exactly when the deadline won, followed by
\* the error of every failed Stop function, each once, in the order they were
\* sent to stopErrors.
C17_StopResultComposite ==
    spc = "returned" =>
        /\ (stopResult = Nil) <=> (stopArm # "deadline" /\ StoppersFailed = {})
        /\ Lines(stopResult)
               = (IF stopArm = "deadline" THEN <<ErrStopContextDeadlineExceeded>> ELSE <<>>)
                    \o stopErrors
        /\ {stopErrors[k] : k \in DOMAIN stopErrors}
               = {StopErr(stoppers[i]) : i \in StoppersFailed}
        /\ \A i \in StoppersFailed : Count(stopErrors, StopErr(stoppers[i])) = 1

C17_Witness ==
    /\ spc = "returned"
    /\ stopArm = "deadline"
    /\ stopErrors = <<StopErr(1), StopErr(2)>>

StartersDone == {i \in 1..Len(startW) : startW[i] \in {"ok", "fail"}}

StoppersDone == {i \in 1..Len(stopW) : stopW[i] \in {"ok", "fail"}}

\* C18: no start or stop goroutine is ever blocked in its send: each channel
\* holds at most as many errors as the phase has components, each goroutine has
\* posted its error once if its function failed and never otherwise, and every
\* goroutine whose function has returned has finished (wg counts exactly the
\* goroutines whose function has not returned), also when Wait never reads
\* startErrors.
C18_WorkersNeverBlockOnSend ==
    /\ \A i \in 1..Len(startW) : startW[i] # "blocked"
    /\ \A i \in 1..Len(stopW) : stopW[i] # "blocked"
    /\ Len(startErrors) <= Len(starters)
    /\ Len(stopErrors) <= Len(stoppers)
    /\ \A i \in 1..Len(startW) :
          Count(startErrors, StartErr(starters[i])) = (IF startW[i] = "fail" THEN 1 ELSE 0)
    /\ \A i \in 1..Len(stopW) :
          Count(stopErrors, StopErr(stoppers[i])) = (IF stopW[i] = "fail" THEN 1 ELSE 0)
    /\ startSup # "none" => startWg = Len(startW) - Cardinality(StartersDone)
    /\ stopSup # "none" => stopWg = Len(stopW) - Cardinality(StoppersDone)

C18_Witness ==
    /\ Returned
    /\ arm \in {"ctx", "deadline"}
    /\ Len(starters) = MaxPairs
    /\ Len(startErrors) = MaxPairs
    /\ Len(stopErrors) = MaxPairs
    /\ startSup = "finished"

\* C19: no goroutine panics: each of the four channels is closed at most once,
\* by its supervisor, and only after every goroutine of its phase has finished,
\* so no error is sent on a closed channel, also when start goroutines finish
\* after Wait has taken the ctx or deadline case or has returned.
C19_ChannelsClosedOnceAfterWorkers ==
    /\ ~panicked
    /\ \A i \in 1..Len(startW) : startW[i] # "panic"
    /\ \A i \in 1..Len(stopW) : stopW[i] # "panic"
    /\ (startErrorsClosed \/ startDoneClosed) =>
          /\ startWg = 0
          /\ StartersDone = 1..Len(startW)
          /\ startErrorsClosed
          /\ startSup \in {"closing", "finished"}
    /\ (stopErrorsClosed \/ stopDoneClosed) =>
          /\ stopWg = 0
          /\ StoppersDone = 1..Len(stopW)
          /\ stopDoneClosed
          /\ stopSup \in {"closing", "finished"}
    /\ startSup = "finished" <=> startDoneClosed
    /\ stopSup = "finished" <=> stopErrorsClosed

C19_Witness ==
    /\ Returned
    /\ arm \in {"ctx", "deadline"}
    /\ startDoneClosed
    /\ \E i \in 1..Len(startW) : startW[i] = "fail" /\ i \notin snapFailed

\* C20: under FairSpec, if some Start function never returns, then from any
\* state in which Wait has been called and ctx is cancelled or the start
\* deadline has fired, Wait eventually returns: stop is started while Start
\* functions are still running.
C20_StuckStarterDoesNotBlockWait ==
    (<>[]SomeStarterRunning) =>
        ((wpc # "idle" /\ (ctxDone \/ startDeadlineFired)) ~> Returned)

C20_Witness ==
    /\ Returned
    /\ SomeStarterRunning
    /\ stopCalls = 1
    /\ \A i \in 1..Len(stopW) : stopW[i] \in {"ok", "fail"}

====
